---- MODULE Spec2Model ----
(***************************************************************************)
(* A model of the BMI calculator (src/app.py): the pure engine functions,  *)
(* the Streamlit session that drives them, and the bmi_history table.      *)
(*                                                                         *)
(* Python floats are modelled as exact rationals [n |-> numerator,         *)
(* d |-> denominator > 0], kept in lowest terms.  None is modelled as the  *)
(* empty tuple for an optional number and as the string "None" for an      *)
(* optional string.                                                        *)
(***************************************************************************)
EXTENDS Integers, Sequences, FiniteSets, TLC

\* ------------------------------------------------------------ bounds

\* Sampling grid of the direct calls: numerators and denominators.
MaxNum == 40
MaxDen == 4
\* Rows the session of Spec may insert, and clock ticks before the first save.
MaxRecords == 2
MaxIdle == 1
\* Rows the session of SpecHistory may insert (beyond the LIMIT of 50).
MaxSaves == 52

\* ------------------------------------------------------------ rationals

Abs(x) == IF x < 0 THEN -x ELSE x

RECURSIVE Gcd(_, _)
Gcd(a, b) == IF b = 0 THEN a ELSE Gcd(b, a % b)

\* n/d in lowest terms, d > 0.
Rat(n, d) ==
    LET g == Gcd(Abs(n), Abs(d))
        s == IF d < 0 THEN -1 ELSE 1
    IN  [n |-> (s * n) \div g, d |-> (s * d) \div g]

Int2Rat(i) == [n |-> i, d |-> 1]

RMul(a, b) ==
    LET g1 == Gcd(Abs(a.n), b.d)
        g2 == Gcd(Abs(b.n), a.d)
    IN  [n |-> (a.n \div g1) * (b.n \div g2), d |-> (a.d \div g2) * (b.d \div g1)]

\* a / b, for b # 0.
RDiv(a, b) ==
    RMul(a, IF b.n < 0 THEN [n |-> -b.d, d |-> -b.n] ELSE [n |-> b.d, d |-> b.n])

RAdd(a, b) == Rat(a.n * b.d + b.n * a.d, a.d * b.d)

\* an/ad < bn/bd for ad, bd > 0, by integer parts and then the reciprocals of
\* the fractional parts (no cross product, so no 32-bit overflow).
RECURSIVE Less(_, _, _, _)
Less(an, ad, bn, bd) ==
    LET qa == an \div ad
        qb == bn \div bd
        ra == an % ad
        rb == bn % bd
    IN  IF qa # qb THEN qa < qb
        ELSE IF rb = 0 THEN FALSE
        ELSE IF ra = 0 THEN TRUE
        ELSE Less(bd, rb, ad, ra)

RLt(a, b) == Less(a.n, a.d, b.n, b.d)
RLe(a, b) == ~RLt(b, a)

Zero == Int2Rat(0)

\* ------------------------------------------------------------ Python values

None == <<>>
Some(x) == <<x>>

\* Truthiness of an optional integer: None and 0 are falsy.
Truthy(x) == x # None /\ x[1] # 0

\* Results of a call: a returned value, None, or a raised exception.
Value(v) == [kind |-> "value", v |-> v]
NoneResult == [kind |-> "None"]
Raise(e) == [kind |-> "raise", exc |-> e]

\* ------------------------------------------------------------ the engine

\* calculate_bmi with the guard `height < 0 or weight <= 0`.
calculate_bmi_strict_guard(weight, height) ==
    IF RLt(height, Zero) \/ RLe(weight, Zero)
    THEN NoneResult
    ELSE LET sq == RMul(height, height)
         IN  IF sq.n = 0 THEN Raise("ZeroDivisionError")
             ELSE Value(RDiv(weight, sq))

\* def calculate_bmi(weight, height)
calculate_bmi(weight, height) ==
    IF RLe(height, Zero) \/ RLe(weight, Zero)
    THEN NoneResult
    ELSE LET sq == RMul(height, height)
         IN  IF sq.n = 0 THEN Raise("ZeroDivisionError")
             ELSE Value(RDiv(weight, sq))

\* classify_bmi with the first threshold closed above (`bmi <= 18.5`).
classify_bmi_closed_upper(bmi) ==
    IF RLe(bmi, Rat(185, 10)) THEN "Underweight"
    ELSE IF RLt(bmi, Int2Rat(25)) THEN "Normal weight"
    ELSE IF RLt(bmi, Int2Rat(30)) THEN "Overweight"
    ELSE "Obese"

\* def classify_bmi(bmi): the category (the emoji is cosmetic)
classify_bmi(bmi) ==
    IF RLt(bmi, Rat(185, 10)) THEN "Underweight"
    ELSE IF RLe(Rat(185, 10), bmi) /\ RLt(bmi, Int2Rat(25)) THEN "Normal weight"
    ELSE IF RLe(Int2Rat(25), bmi) /\ RLt(bmi, Int2Rat(30)) THEN "Overweight"
    ELSE "Obese"

Categories == {"Underweight", "Normal weight", "Overweight", "Obese"}

\* base_recommendations.get(category, [])
base_recommendations(category) ==
    CASE category = "Underweight" ->
           << "Consult with a healthcare provider to determine underlying causes",
              "Focus on nutrient-dense foods to gain weight healthily",
              "Consider strength training to build muscle mass",
              "Ensure adequate caloric intake for your activity level" >>
      [] category = "Normal weight" ->
           << "Maintain your current healthy lifestyle",
              "Continue regular physical activity (150 minutes moderate exercise per week)",
              "Eat a balanced diet rich in fruits, vegetables, and whole grains",
              "Monitor your weight regularly to maintain this healthy range" >>
      [] category = "Overweight" ->
           << "Aim for gradual weight loss (1-2 pounds per week)",
              "Increase physical activity to at least 300 minutes per week",
              "Focus on portion control and reducing caloric intake",
              "Consider consulting a nutritionist for personalized advice" >>
      [] category = "Obese" ->
           << "Consult with a healthcare provider for a comprehensive weight management plan",
              "Set realistic weight loss goals (5-10% of body weight initially)",
              "Combine dietary changes with regular physical activity",
              "Consider professional support from dietitians or weight loss programs" >>
      [] OTHER -> << >>

Rec65Underweight ==
    "Older adults may need slightly higher BMI for better health outcomes - discuss with your doctor"
Rec65Normal ==
    "Focus on maintaining muscle mass through resistance training and adequate protein intake"
Rec65Heavy ==
    "Weight loss for older adults should be supervised by healthcare professionals to preserve muscle mass"
RecUnder18 ==
    "BMI interpretation for individuals under 18 may differ - consult with a pediatrician for appropriate guidance"
RecFemaleNormal ==
    "Women may need additional iron and calcium in their diet - especially during reproductive years"
RecFemaleUnderweight ==
    "Underweight in women can affect menstrual health and bone density - consider consulting a healthcare provider"
RecMaleHeavy ==
    "Men tend to carry more visceral fat, which increases health risks - focus on waist circumference reduction"

\* The age block with `if age is not None` for `if age`.
age_adjustments_is_not_none(category, age) ==
    IF age # None
    THEN IF age[1] >= 65
         THEN IF category = "Underweight" THEN << Rec65Underweight >>
              ELSE IF category = "Normal weight" THEN << Rec65Normal >>
              ELSE IF category \in {"Overweight", "Obese"} THEN << Rec65Heavy >>
              ELSE << >>
         ELSE IF age[1] < 18 THEN << RecUnder18 >>
         ELSE << >>
    ELSE << >>

\* The "Age-specific adjustments" block: what it appends.
age_adjustments(category, age) ==
    IF Truthy(age)
    THEN IF age[1] >= 65
         THEN IF category = "Underweight" THEN << Rec65Underweight >>
              ELSE IF category = "Normal weight" THEN << Rec65Normal >>
              ELSE IF category \in {"Overweight", "Obese"} THEN << Rec65Heavy >>
              ELSE << >>
         ELSE IF age[1] < 18 THEN << RecUnder18 >>
         ELSE << >>
    ELSE << >>

\* The "Gender-specific adjustments" block: what it appends.
gender_adjustments(category, gender) ==
    IF gender = "Female"
    THEN IF category = "Normal weight" THEN << RecFemaleNormal >>
         ELSE IF category = "Underweight" THEN << RecFemaleUnderweight >>
         ELSE << >>
    ELSE IF gender = "Male"
    THEN IF category = "Overweight" \/ category = "Obese" THEN << RecMaleHeavy >>
         ELSE << >>
    ELSE << >>

\* get_health_recommendations with the gender block before the age block.
get_health_recommendations_gender_first(category, age, gender) ==
    base_recommendations(category)
        \o gender_adjustments(category, gender)
        \o age_adjustments(category, age)

\* def get_health_recommendations(category, age=None, gender=None)
get_health_recommendations(category, age, gender) ==
    base_recommendations(category)
        \o age_adjustments(category, age)
        \o gender_adjustments(category, gender)

Note65 ==
    "Note: For adults 65+, slightly higher BMI (23-30) may be associated with better health outcomes."
NoteUnder18 ==
    "Important: This calculator is designed for adults. BMI interpretation for children and teens requires age and sex-specific percentiles."
NoteFemale ==
    "Note: BMI doesn't account for pregnancy, menstrual cycle variations, or body composition differences."

\* `30 if age is None else age` for `age or 30`.
age_or_30_is_none(age) == IF age # None THEN age[1] ELSE 30

\* `age or 30`
age_or_30(age) == IF Truthy(age) THEN age[1] ELSE 30

\* def get_bmi_interpretation_note(bmi, age=None, gender=None)
get_bmi_interpretation_note(bmi, age, gender) ==
    (IF Truthy(age) /\ age[1] >= 65 THEN << Note65 >> ELSE << >>)
        \o (IF Truthy(age) /\ age[1] < 18 THEN << NoteUnder18 >> ELSE << >>)
        \o (IF gender = "Female" /\ 18 <= age_or_30(age) /\ age_or_30(age) <= 50
            THEN << NoteFemale >> ELSE << >>)

\* convert_height_to_meters returning its first argument under Metric.
convert_height_to_meters_identity(feet, inches, unit_system) ==
    IF unit_system = "Imperial"
    THEN RMul(RAdd(RMul(feet, Int2Rat(12)), inches), Rat(254, 10000))
    ELSE feet

\* def convert_height_to_meters(feet, inches, unit_system)
convert_height_to_meters(feet, inches, unit_system) ==
    IF unit_system = "Imperial"
    THEN LET total_inches == RAdd(RMul(feet, Int2Rat(12)), inches)
         IN  RMul(total_inches, Rat(254, 10000))
    ELSE RDiv(feet, Int2Rat(100))

\* def convert_weight_to_kg(weight, unit_system)
convert_weight_to_kg(weight, unit_system) ==
    IF unit_system = "Imperial"
    THEN RMul(weight, Rat(453592, 1000000))
    ELSE weight

\* calculate_ideal_weight_range with the upper bound at BMI 25.
calculate_ideal_weight_range_25(height_m) ==
    [min_weight |-> RMul(Rat(185, 10), RMul(height_m, height_m)),
     max_weight |-> RMul(Int2Rat(25), RMul(height_m, height_m))]

\* def calculate_ideal_weight_range(height_m)
calculate_ideal_weight_range(height_m) ==
    [min_weight |-> RMul(Rat(185, 10), RMul(height_m, height_m)),
     max_weight |-> RMul(Rat(249, 10), RMul(height_m, height_m))]

\* ------------------------------------------------------------ the table

\* A NUMERIC(precision, scale) column: the value rounded to `scale` decimals
\* (half away from zero), as a count of 10^-scale units.
RECURSIVE Pow10(_)
Pow10(k) == IF k = 0 THEN 1 ELSE 10 * Pow10(k - 1)

numeric_round(r, scale) ==
    LET a == Abs(r.n)
        q == a \div r.d
        m == a % r.d
        u == q * Pow10(scale) + ((2 * m * Pow10(scale) + r.d) \div (2 * r.d))
    IN  IF r.n < 0 THEN -u ELSE u

\* "numeric field overflow": the rounded value needs more than
\* precision - scale digits before the decimal point.
numeric_overflow(r, precision, scale) ==
    Abs(numeric_round(r, scale)) >= Pow10(precision)

Decimal(r, scale) == Rat(numeric_round(r, scale), Pow10(scale))

\* The columns of bmi_history (CREATE TABLE), without the SERIAL id.
Row(height_m, weight_kg, bmi, category, unit_system, age, gender, now) ==
    [height_m |-> Decimal(height_m, 3),
     weight_kg |-> Decimal(weight_kg, 2),
     bmi |-> Decimal(bmi, 1),
     category |-> category,
     unit_system |-> unit_system,
     age |-> age,
     gender |-> gender,
     calculated_at |-> now]

\* Whether the INSERT of save_bmi_calculation is rejected by the column types.
insert_rejected(height_m, weight_kg, bmi) ==
    \/ numeric_overflow(height_m, 5, 3)
    \/ numeric_overflow(weight_kg, 5, 2)
    \/ numeric_overflow(bmi, 4, 1)

\* save_bmi_calculation overwriting the latest row (an UPDATE) once one exists.
save_bmi_calculation_update(rows, height_m, weight_kg, bmi, category, unit_system, age, gender, now) ==
    IF insert_rejected(height_m, weight_kg, bmi)
    THEN [returned |-> FALSE, rows |-> rows]
    ELSE [returned |-> TRUE,
          rows |-> IF rows = << >>
                   THEN << Row(height_m, weight_kg, bmi, category,
                               unit_system, age, gender, now) >>
                   ELSE [rows EXCEPT ![Len(rows)] =
                            Row(height_m, weight_kg, bmi, category,
                                unit_system, age, gender, now)]]

\* def save_bmi_calculation(...): what it returns and the table after it.
save_bmi_calculation(rows, height_m, weight_kg, bmi, category, unit_system, age, gender, now) ==
    IF insert_rejected(height_m, weight_kg, bmi)
    THEN [returned |-> FALSE, rows |-> rows]
    ELSE [returned |-> TRUE,
          rows |-> Append(rows, Row(height_m, weight_kg, bmi, category,
                                    unit_system, age, gender, now))]

\* ORDER BY calculated_at DESC: insertion of one row into a descending list.
RECURSIVE InsertDesc(_, _)
InsertDesc(row, sorted) ==
    IF sorted = << >> THEN << row >>
    ELSE IF row.calculated_at > Head(sorted).calculated_at THEN << row >> \o sorted
    ELSE << Head(sorted) >> \o InsertDesc(row, Tail(sorted))

\* The rows taken in insertion order, each put in its place.
RECURSIVE SortInto(_, _)
SortInto(rows, sorted) ==
    IF rows = << >> THEN sorted
    ELSE SortInto(Tail(rows), InsertDesc(Head(rows), sorted))

OrderByCalculatedAtDesc(rows) == SortInto(rows, << >>)

\* LIMIT 50
HistoryLimit == 50

Limit(rows, k) == IF Len(rows) <= k THEN rows ELSE SubSeq(rows, 1, k)

\* get_bmi_history without the ORDER BY: the rows in insertion order.
get_bmi_history_unordered(rows) == Limit(rows, HistoryLimit)

\* def get_bmi_history(): SELECT * FROM bmi_history ORDER BY calculated_at DESC LIMIT 50
get_bmi_history(rows) == Limit(OrderByCalculatedAtDesc(rows), HistoryLimit)

\* ------------------------------------------------------------ state

VARIABLES
    unit_system,      \* st.radio: "Metric" or "Imperial"
    age,              \* st.number_input "Age (optional)": 0..120
    gender,           \* st.selectbox "Gender (optional)"
    height_cm,        \* st.number_input "Height (cm)"
    feet,             \* st.number_input "Feet"
    inches,           \* st.number_input "Inches"
    weight,           \* st.number_input "Weight (kg)" or "Weight (lbs)"
    table,            \* the rows of bmi_history, in insertion order
    clock,            \* the database server's CURRENT_TIMESTAMP
    bmi_history_df,   \* what the last script run read with get_bmi_history()
    saved,            \* outcome of the last script run's save button
    call,             \* a direct call of an engine function: its name and arguments
    ret               \* what that call returned

widgets == << unit_system, age, gender, height_cm, feet, inches, weight >>
store == << table, clock >>
session == << widgets, store, bmi_history_df, saved >>
direct == << call, ret >>
vars == << session, direct >>

\* Widget ranges and defaults of the script.
AgeMin == 0
AgeMax == 120
InchesMin == 0
InchesMax == 11
FeetDefault == 5
InchesDefault == 8
HeightCmDefault == Int2Rat(170)
WeightKgDefault == Int2Rat(70)
WeightLbsDefault == Int2Rat(154)

Genders == {"", "Male", "Female", "Other"}

\* The values the modelled user enters (all within the widgets' ranges).
AgeChoices == {0, 70}
GenderChoices == {"Female"}
HeightCmChoices == {Int2Rat(50), Int2Rat(170)}
WeightKgChoices == {Rat(534, 10), Int2Rat(70), Int2Rat(300)}
FeetChoices == {5, 6}
InchesChoices == {8}
WeightLbsChoices == {Int2Rat(154)}

\* ------------------------------------------------------------ the script

\* height_m as the script computes it from the widgets.
height_m ==
    IF unit_system = "Metric"
    THEN RDiv(height_cm, Int2Rat(100))
    ELSE convert_height_to_meters(Int2Rat(feet), Int2Rat(inches), "Imperial")

\* weight_kg as the script computes it from the widgets.
weight_kg ==
    IF unit_system = "Metric" THEN weight ELSE convert_weight_to_kg(weight, "Imperial")

\* age_val = age if age > 0 else None
age_val == IF age > 0 THEN Some(age) ELSE None

\* gender_val = gender if gender else None
gender_val == IF gender # "" THEN gender ELSE "None"

\* `if bmi:` on the result of calculate_bmi
bmi_truthy(bmi) == bmi.kind = "value" /\ bmi.v.n # 0

\* Whether the run renders the save button: `if height_m > 0 and weight_kg > 0`
\* and then `if bmi`.
save_button_rendered ==
    /\ RLt(Zero, height_m)
    /\ RLt(Zero, weight_kg)
    /\ bmi_truthy(calculate_bmi(weight_kg, height_m))

\* The handler of the save button: the call of save_bmi_calculation with the
\* run's bmi, category, age_val and gender_val.
save_clicked ==
    LET bmi == calculate_bmi(weight_kg, height_m).v
    IN  save_bmi_calculation(table, height_m, weight_kg, bmi, classify_bmi(bmi),
                             unit_system, age_val, gender_val, clock)

\* One script run without a button press: the tabs read the history.
Rerun ==
    /\ bmi_history_df' = get_bmi_history(table)
    /\ saved' = "none"
    /\ UNCHANGED << store, direct >>

SetUnitSystem(u) ==
    /\ u # unit_system
    /\ unit_system' = u
    /\ height_cm' = HeightCmDefault
    /\ feet' = FeetDefault
    /\ inches' = InchesDefault
    /\ weight' = IF u = "Metric" THEN WeightKgDefault ELSE WeightLbsDefault
    /\ UNCHANGED << age, gender >>
    /\ Rerun

SetAge(a) ==
    /\ age' = a
    /\ UNCHANGED << unit_system, gender, height_cm, feet, inches, weight >>
    /\ Rerun

SetGender(g) ==
    /\ gender' = g
    /\ UNCHANGED << unit_system, age, height_cm, feet, inches, weight >>
    /\ Rerun

SetHeightCm(h) ==
    /\ unit_system = "Metric"
    /\ height_cm' = h
    /\ UNCHANGED << unit_system, age, gender, feet, inches, weight >>
    /\ Rerun

SetFeet(f) ==
    /\ unit_system = "Imperial"
    /\ feet' = f
    /\ UNCHANGED << unit_system, age, gender, height_cm, inches, weight >>
    /\ Rerun

SetInches(i) ==
    /\ unit_system = "Imperial"
    /\ inches' = i
    /\ UNCHANGED << unit_system, age, gender, height_cm, feet, weight >>
    /\ Rerun

SetWeight(w) ==
    /\ w \in (IF unit_system = "Metric" THEN WeightKgChoices ELSE WeightLbsChoices)
    /\ weight' = w
    /\ UNCHANGED << unit_system, age, gender, height_cm, feet, inches >>
    /\ Rerun

\* The "Save BMI Calculation" button: the run that saves, then (on success)
\* st.rerun(); either way the tabs read the history after the INSERT.
ClickSave(max) ==
    /\ Len(table) < max
    /\ save_button_rendered
    /\ table' = save_clicked.rows
    /\ clock' = IF save_clicked.returned THEN clock + 1 ELSE clock
    /\ saved' = IF save_clicked.returned THEN "saved" ELSE "failed"
    /\ bmi_history_df' = get_bmi_history(table')
    /\ UNCHANGED << widgets, direct >>

\* A download button of the export tab: one more script run.
ClickDownload ==
    /\ Rerun
    /\ UNCHANGED widgets

\* Time passes on the database server before the session's first save.
Tick ==
    /\ table = << >>
    /\ clock < MaxIdle
    /\ clock' = clock + 1
    /\ UNCHANGED << widgets, table, bmi_history_df, saved, direct >>

InitSession ==
    /\ unit_system = "Metric"
    /\ age = AgeMin
    /\ gender = ""
    /\ height_cm = HeightCmDefault
    /\ feet = FeetDefault
    /\ inches = InchesDefault
    /\ weight = WeightKgDefault
    /\ table = << >>
    /\ clock = 0
    /\ bmi_history_df = << >>
    /\ saved = "none"

Init ==
    /\ InitSession
    /\ call = [fn |-> "none"]
    /\ ret = NoneResult

Next ==
    \/ \E u \in {"Metric", "Imperial"} : SetUnitSystem(u)
    \/ \E a \in AgeChoices : SetAge(a)
    \/ \E g \in GenderChoices : SetGender(g)
    \/ \E h \in HeightCmChoices : SetHeightCm(h)
    \/ \E f \in FeetChoices : SetFeet(f)
    \/ \E i \in InchesChoices : SetInches(i)
    \/ \E w \in WeightKgChoices \cup WeightLbsChoices : SetWeight(w)
    \/ ClickSave(MaxRecords)
    \/ ClickDownload

Spec == Init /\ [][Next]_vars

\* A long session at the default inputs: saves, downloads and passing time.
NextHistory ==
    \/ ClickSave(MaxSaves)
    \/ ClickDownload
    \/ Tick

SpecHistory == Init /\ [][NextHistory]_vars

\* ------------------------------------------------------------ direct calls

\* The numbers the engine functions are called with: n/d on a grid that
\* holds zero, negatives, and the thresholds 18.5, 24.9, 25 and 30.
Grid == { Rat(n, d) : n \in -2 .. MaxNum, d \in 1 .. MaxDen }

\* The boundary values the specification lists for the classifier.
BoundaryBmis ==
    { Rat(184999, 10000), Rat(185, 10), Rat(249999, 10000), Int2Rat(25),
      Rat(299999, 10000), Int2Rat(30) }

Ages == { None } \cup { Some(a) : a \in AgeMin .. AgeMax }
GenderArgs == Genders \cup { "None" }
CategoryArgs == Categories \cup { "Unknown" }
UnitSystems == { "Metric", "Imperial" }

\* Each behaviour of SpecFn is one call: the arguments are chosen, the function
\* is applied, and its result is kept in ret.
CallCalculateBmi ==
    /\ call.fn = "none"
    /\ \E w \in Grid, h \in Grid :
          /\ call' = [fn |-> "calculate_bmi", weight |-> w, height |-> h]
          /\ ret' = calculate_bmi(w, h)
    /\ UNCHANGED session

CallClassifyBmi ==
    /\ call.fn = "none"
    /\ \E b \in Grid \cup BoundaryBmis :
          /\ call' = [fn |-> "classify_bmi", bmi |-> b]
          /\ ret' = Value(classify_bmi(b))
    /\ UNCHANGED session

CallGetHealthRecommendations ==
    /\ call.fn = "none"
    /\ \E c \in CategoryArgs, a \in Ages, g \in GenderArgs :
          /\ call' = [fn |-> "get_health_recommendations",
                      category |-> c, age |-> a, gender |-> g]
          /\ ret' = Value(get_health_recommendations(c, a, g))
    /\ UNCHANGED session

CallGetBmiInterpretationNote ==
    /\ call.fn = "none"
    /\ \E b \in { Int2Rat(22), Int2Rat(31) }, a \in Ages, g \in GenderArgs :
          /\ call' = [fn |-> "get_bmi_interpretation_note",
                      bmi |-> b, age |-> a, gender |-> g]
          /\ ret' = Value(get_bmi_interpretation_note(b, a, g))
    /\ UNCHANGED session

CallConvertHeightToMeters ==
    /\ call.fn = "none"
    /\ \E f \in Grid, i \in { Int2Rat(k) : k \in InchesMin .. InchesMax }, u \in UnitSystems :
          /\ call' = [fn |-> "convert_height_to_meters",
                      feet |-> f, inches |-> i, unit_system |-> u]
          /\ ret' = Value(convert_height_to_meters(f, i, u))
    /\ UNCHANGED session

CallConvertWeightToKg ==
    /\ call.fn = "none"
    /\ \E w \in Grid, u \in UnitSystems :
          /\ call' = [fn |-> "convert_weight_to_kg", weight |-> w, unit_system |-> u]
          /\ ret' = Value(convert_weight_to_kg(w, u))
    /\ UNCHANGED session

CallCalculateIdealWeightRange ==
    /\ call.fn = "none"
    /\ \E h \in Grid \cup { Rat(17, 10) } :
          /\ call' = [fn |-> "calculate_ideal_weight_range", height_m |-> h]
          /\ ret' = Value(calculate_ideal_weight_range(h))
    /\ UNCHANGED session

\* The results of one script run for a weight and a height: the BMI, its
\* category (computed only under `if bmi:`) and the ideal weight range.
bmi_results(w, h) ==
    LET bmi == calculate_bmi(w, h)
    IN  [bmi |-> bmi,
         category |-> IF bmi_truthy(bmi) THEN classify_bmi(bmi.v) ELSE "None",
         range |-> calculate_ideal_weight_range(h)]

\* Weights whose BMI at 1.7 m lies at the edges of the range: 53.4 kg (below
\* 18.5), 72 kg (between 24.9 and 25) and 71.961 kg (exactly 24.9).
EdgeWeights == { Rat(534, 10), Int2Rat(72), Rat(71961, 1000) }

PositiveHeights == { h \in Grid \cup { Rat(17, 10) } : h.n > 0 }

CallBmiResults ==
    /\ call.fn = "none"
    /\ \E w \in Grid \cup EdgeWeights, h \in PositiveHeights :
          /\ call' = [fn |-> "bmi_results", weight |-> w, height_m |-> h]
          /\ ret' = Value(bmi_results(w, h))
    /\ UNCHANGED session

NextFn ==
    \/ CallBmiResults
    \/ CallCalculateBmi
    \/ CallClassifyBmi
    \/ CallGetHealthRecommendations
    \/ CallGetBmiInterpretationNote
    \/ CallConvertHeightToMeters
    \/ CallConvertWeightToKg
    \/ CallCalculateIdealWeightRange

SpecFn == Init /\ [][NextFn]_vars

\* ------------------------------------------------------------ properties

Positive(r) == r.n > 0

\* C1: calculate_bmi(weight, height) never raises; it returns None exactly when
\* weight <= 0 or height <= 0, and otherwise a strictly positive value v with
\* v * height^2 = weight.
C1_CalculateBmi ==
    call.fn = "calculate_bmi" =>
        /\ ret.kind # "raise"
        /\ (ret.kind = "None") <=> (call.weight.n <= 0 \/ call.height.n <= 0)
        /\ (Positive(call.weight) /\ Positive(call.height)) =>
              /\ ret.kind = "value"
              /\ Positive(ret.v)
              /\ RMul(ret.v, RMul(call.height, call.height)) = call.weight

C1_Witness ==
    /\ call.fn = "calculate_bmi"
    /\ call.weight = Int2Rat(36)
    /\ call.height = Rat(3, 2)
    /\ ret = Value(Int2Rat(16))

\* C2: over positive BMI values classify_bmi returns exactly one of the four
\* categories: Underweight iff bmi < 18.5, Normal weight iff 18.5 <= bmi < 25,
\* Overweight iff 25 <= bmi < 30, Obese iff bmi >= 30.
C2_ClassifyBmi ==
    (call.fn = "classify_bmi" /\ Positive(call.bmi)) =>
        LET n == call.bmi.n
            d == call.bmi.d
        IN  /\ ret.v \in Categories
            /\ (ret.v = "Underweight") <=> (2 * n < 37 * d)
            /\ (ret.v = "Normal weight") <=> (37 * d <= 2 * n /\ n < 25 * d)
            /\ (ret.v = "Overweight") <=> (25 * d <= n /\ n < 30 * d)
            /\ (ret.v = "Obese") <=> (n >= 30 * d)

C2_Witness ==
    /\ call.fn = "classify_bmi"
    /\ call.bmi = Rat(185, 10)
    /\ ret.v = "Normal weight"

AgeMessages == { Rec65Underweight, Rec65Normal, Rec65Heavy, RecUnder18 }
GenderMessages == { RecFemaleNormal, RecFemaleUnderweight, RecMaleHeavy }

\* C3: for each of the four categories the recommendations are the category's
\* 4 base entries, then at most one age entry, then at most one gender entry
\* (length 4 to 6); (Normal weight, 70, Female) gives the base entries, the
\* muscle-mass message and the iron-calcium message.
C3_Recommendations ==
    (call.fn = "get_health_recommendations" /\ call.category \in Categories) =>
        LET r == ret.v
            extra == SubSeq(r, 5, Len(r))
        IN  /\ Len(r) \in 4 .. 6
            /\ SubSeq(r, 1, 4) = base_recommendations(call.category)
            /\ Len(base_recommendations(call.category)) = 4
            /\ \/ extra = << >>
               \/ Len(extra) = 1 /\ extra[1] \in AgeMessages \cup GenderMessages
               \/ Len(extra) = 2 /\ extra[1] \in AgeMessages /\ extra[2] \in GenderMessages
            /\ (call.category = "Normal weight" /\ call.age = Some(70) /\ call.gender = "Female")
                  => extra = << Rec65Normal, RecFemaleNormal >>

C3_Witness ==
    /\ call.fn = "get_health_recommendations"
    /\ call.category = "Normal weight"
    /\ call.age = Some(70)
    /\ call.gender = "Female"
    /\ Len(ret.v) = 6

\* The 65+ message of a category.
Rec65(category) ==
    CASE category = "Underweight" -> Rec65Underweight
      [] category = "Normal weight" -> Rec65Normal
      [] OTHER -> Rec65Heavy

AgeEntries(r) == { i \in 1 .. Len(r) : r[i] \in AgeMessages }

\* C4 as stated: the under-18 message is appended for every age below 18
\* (0..17), the category's 65+ message for every age >= 65, and no age entry
\* for ages 18..64 or an absent age.
C4_AsStated ==
    (call.fn = "get_health_recommendations" /\ call.category \in Categories) =>
        LET r == ret.v
        IN  /\ (call.age # None /\ call.age[1] < 18) =>
                  (AgeEntries(r) = {5} /\ r[5] = RecUnder18)
            /\ (call.age # None /\ call.age[1] >= 65) =>
                  (AgeEntries(r) = {5} /\ r[5] = Rec65(call.category))
            /\ (call.age = None \/ (call.age[1] >= 18 /\ call.age[1] < 65)) =>
                  AgeEntries(r) = {}

\* C4 amended: the under-18 message is appended for every non-zero age below
\* 18 (1..17), the category's 65+ message for every age >= 65, and no age
\* entry for ages 18..64, for age 0 or for an absent age.
C4_Amended ==
    (call.fn = "get_health_recommendations" /\ call.category \in Categories) =>
        LET r == ret.v
        IN  /\ (call.age # None /\ call.age[1] < 18 /\ call.age[1] # 0) =>
                  (AgeEntries(r) = {5} /\ r[5] = RecUnder18)
            /\ (call.age # None /\ call.age[1] >= 65) =>
                  (AgeEntries(r) = {5} /\ r[5] = Rec65(call.category))
            /\ (call.age = None \/ call.age[1] = 0
                  \/ (call.age[1] >= 18 /\ call.age[1] < 65)) =>
                  AgeEntries(r) = {}

C4_Witness ==
    /\ call.fn = "get_health_recommendations"
    /\ call.category = "Obese"
    /\ call.age = Some(17)
    /\ ret.v[5] = RecUnder18

\* The notes C5 expects, given whether the age counts as under 18 and the age
\* used for the Female check.
ExpectedNotes(is65, under18, female) ==
    (IF is65 THEN << Note65 >> ELSE << >>)
        \o (IF under18 THEN << NoteUnder18 >> ELSE << >>)
        \o (IF female THEN << NoteFemale >> ELSE << >>)

\* C5 as stated: in this order, the 65+ note iff age >= 65, the under-18 note
\* iff age < 18, and the Female note iff gender is Female and the age (30 when
\* absent) is in [18, 50]; an absent age triggers neither of the first two.
C5_AsStated ==
    call.fn = "get_bmi_interpretation_note" =>
        LET present == call.age # None
            a == IF present THEN call.age[1] ELSE 30
        IN  ret.v = ExpectedNotes(present /\ call.age[1] >= 65,
                                  present /\ call.age[1] < 18,
                                  call.gender = "Female" /\ 18 <= a /\ a <= 50)

\* C5 amended: an age of 0 is treated like an absent age: the 65+ note iff
\* age >= 65, the under-18 note iff the age is non-zero and < 18, and the
\* Female note iff gender is Female and the age (30 when absent or 0) is in
\* [18, 50]; the result does not depend on bmi.
C5_Amended ==
    call.fn = "get_bmi_interpretation_note" =>
        LET present == call.age # None /\ call.age[1] # 0
            a == IF present THEN call.age[1] ELSE 30
        IN  ret.v = ExpectedNotes(present /\ call.age[1] >= 65,
                                  present /\ call.age[1] < 18,
                                  call.gender = "Female" /\ 18 <= a /\ a <= 50)

C5_Witness ==
    /\ call.fn = "get_bmi_interpretation_note"
    /\ call.age = Some(0)
    /\ call.gender = "Female"
    /\ ret.v = << NoteFemale >>

\* The Imperial transforms: (feet * 12 + inches) * 0.0254 and weight * 0.453592.
ImperialTransforms ==
    /\ (call.fn = "convert_height_to_meters" /\ call.unit_system = "Imperial") =>
          RMul(ret.v, Int2Rat(10000))
              = RMul(RAdd(RMul(call.feet, Int2Rat(12)), call.inches), Int2Rat(254))
    /\ (call.fn = "convert_weight_to_kg" /\ call.unit_system = "Imperial") =>
          RMul(ret.v, Int2Rat(1000000)) = RMul(call.weight, Int2Rat(453592))

\* C6 as stated: under Metric both conversions return the value passed in
\* (the first argument for height); under Imperial they apply the linear
\* transforms.
C6_AsStated ==
    /\ (call.fn = "convert_height_to_meters" /\ call.unit_system = "Metric") =>
          ret.v = call.feet
    /\ (call.fn = "convert_weight_to_kg" /\ call.unit_system = "Metric") =>
          ret.v = call.weight
    /\ ImperialTransforms

\* C6 amended: under Metric convert_weight_to_kg returns the weight passed in
\* and convert_height_to_meters returns its first argument divided by 100
\* (centimetres to metres); under Imperial they apply the linear transforms.
C6_Amended ==
    /\ (call.fn = "convert_height_to_meters" /\ call.unit_system = "Metric") =>
          RMul(ret.v, Int2Rat(100)) = call.feet
    /\ (call.fn = "convert_weight_to_kg" /\ call.unit_system = "Metric") =>
          ret.v = call.weight
    /\ ImperialTransforms

C6_Witness ==
    /\ call.fn = "convert_height_to_meters"
    /\ call.unit_system = "Metric"
    /\ call.feet = Int2Rat(40)
    /\ ret.v = Rat(4, 10)

\* C7: for height_m > 0 the ideal range is min = 18.5 * height_m^2 and
\* max = 24.9 * height_m^2, with 0 < min < max, and both bounds are strictly
\* larger for every larger height.
C7_IdealWeightRange ==
    (call.fn = "calculate_ideal_weight_range" /\ Positive(call.height_m)) =>
        LET sq == RMul(call.height_m, call.height_m)
        IN  /\ RMul(ret.v.min_weight, Int2Rat(10)) = RMul(Int2Rat(185), sq)
            /\ RMul(ret.v.max_weight, Int2Rat(10)) = RMul(Int2Rat(249), sq)
            /\ Positive(ret.v.min_weight)
            /\ RLt(ret.v.min_weight, ret.v.max_weight)
            /\ \A h2 \in Grid :
                  RLt(call.height_m, h2) =>
                      /\ RLt(ret.v.min_weight, calculate_ideal_weight_range(h2).min_weight)
                      /\ RLt(ret.v.max_weight, calculate_ideal_weight_range(h2).max_weight)

C7_Witness ==
    /\ call.fn = "calculate_ideal_weight_range"
    /\ call.height_m = Rat(17, 10)
    /\ ret.v = [min_weight |-> Rat(53465, 1000), max_weight |-> Rat(71961, 1000)]

\* One step of the session, as C8 reads it: the rows already written stay
\* as they are, at most one row is added, a row is added only by a save click
\* made while height_m > 0 and weight_kg > 0 give a defined BMI, and a save
\* that succeeded added exactly one row.
C8_Step ==
    /\ Len(table') >= Len(table)
    /\ SubSeq(table', 1, Len(table)) = table
    /\ Len(table') <= Len(table) + 1
    /\ table' # table =>
          /\ saved' = "saved"
          /\ Positive(height_m)
          /\ Positive(weight_kg)
          /\ calculate_bmi(weight_kg, height_m).kind = "value"
    /\ saved' = "saved" => Len(table') = Len(table) + 1

\* C8: the history store is append-only across every user action (changing
\* inputs, clicking save, exporting): only a save click with a defined BMI
\* creates a record, each successful save adds exactly one, and no action
\* changes or removes a record already written.
C8_AppendOnly == [][C8_Step]_vars

C8_Witness ==
    /\ Len(table) = 2
    /\ table[1].unit_system = "Metric"
    /\ table[2].unit_system = "Imperial"
    /\ saved = "none"
    /\ age = 70

\* What the last read returned, against the table: min(n, 50) rows, the row
\* saved last first, timestamps strictly descending, and no row left out that
\* is as recent as a row returned.
C9_Read ==
    LET n == Len(table)
        k == IF n < HistoryLimit THEN n ELSE HistoryLimit
        df == bmi_history_df
    IN  /\ Len(df) = k
        /\ \A i \in 1 .. k : df[i] = table[n + 1 - i]
        /\ \A i \in 1 .. k - 1 : df[i].calculated_at > df[i + 1].calculated_at
        /\ \A i \in 1 .. n :
              \/ \E j \in 1 .. k :
                    df[j].calculated_at = table[i].calculated_at /\ df[j] = table[i]
              \/ table[i].calculated_at < df[k].calculated_at

\* C9: after n successful saves get_bmi_history returns exactly min(n, 50)
\* records, those with the latest timestamps, in descending timestamp order
\* (most recently saved first), and a run that only reads leaves the table
\* as it was.
C9_History == [] C9_Read /\ [][ClickDownload => table' = table]_vars

C9_Witness ==
    /\ Len(table) = HistoryLimit + 2
    /\ Len(bmi_history_df) = HistoryLimit
    /\ bmi_history_df[1] = table[HistoryLimit + 2]
    /\ bmi_history_df[HistoryLimit] = table[3]
    /\ table[1].calculated_at = MaxIdle

\* C10: every record of the history store is self-consistent: its stored
\* category is classify_bmi of its stored bmi.
C10_SelfConsistent ==
    \A i \in 1 .. Len(table) : table[i].category = classify_bmi(table[i].bmi)

\* Whether the weight of the call lies within [min, max] of the range.
WithinIdealRange ==
    /\ RLe(ret.v.range.min_weight, call.weight)
    /\ RLe(call.weight, ret.v.range.max_weight)

\* C11 as stated: for every height_m > 0 and every weight w, w lies within
\* [min, max] of calculate_ideal_weight_range(height_m) if and only if
\* classify_bmi(calculate_bmi(w, height_m)) is Normal weight.
C11_AsStated ==
    call.fn = "bmi_results" =>
        (WithinIdealRange <=> ret.v.category = "Normal weight")

\* C11 amended: for every height_m > 0 and every weight w, w lies within
\* [min, max] if and only if the BMI is defined and 18.5 <= BMI <= 24.9; so
\* every weight within the range is classified Normal weight, and a weight
\* classified Normal weight lies within the range unless 24.9 < BMI < 25.
C11_Amended ==
    call.fn = "bmi_results" =>
        LET defined == ret.v.bmi.kind = "value"
            n == IF defined THEN ret.v.bmi.v.n ELSE 0
            d == IF defined THEN ret.v.bmi.v.d ELSE 1
            normal == ret.v.category = "Normal weight"
        IN  /\ WithinIdealRange <=> (defined /\ 185 * d <= 10 * n /\ 10 * n <= 249 * d)
            /\ WithinIdealRange => normal
            /\ (normal /\ ~WithinIdealRange) => (249 * d < 10 * n /\ n < 25 * d)

C11_Witness ==
    /\ call.fn = "bmi_results"
    /\ call.height_m = Rat(17, 10)
    /\ call.weight = Int2Rat(72)
    /\ ret.v.category = "Normal weight"
    /\ RLt(ret.v.range.max_weight, call.weight)

====
